---- MODULE Spec2Model ----
(***************************************************************************)
(* gtsam::PowerMethod<Operator> (gtsam/linear/PowerMethod.h) as a state    *)
(* machine over exact arithmetic.                                          *)
(*                                                                         *)
(* A Vector is the real vector n / sqrt(s) with n a tuple of integers and  *)
(* s a positive integer, or the all-NaN vector.  A double is the rational  *)
(* p / q in lowest terms (q > 0), or NaN.  Norms are handled through their *)
(* squares, so that normalisation, the Rayleigh quotient and the Ritz      *)
(* residual are computed exactly, step by step, as the code computes them. *)
(* Rounding error of IEEE doubles is not modelled.                         *)
(***************************************************************************)
EXTENDS Integers, Sequences, FiniteSets, TLC

\* Bounds of the model.
MaxEntry == 1      \* entries of initial vectors range over -MaxEntry..MaxEntry
MaxIterArg == 3    \* compute is called with maxIterations in 0..MaxIterArg
MaxTotal == 3      \* compute is not called once nrIterations_ could pass this

VARIABLES
  A_,              \* const Operator &A_ : a tuple of rows
  zeroNormalize,   \* build: what Eigen's normalize() does to a zero vector
  assertsEnabled,  \* build: eigen_assert active (no NDEBUG)
  dim_,            \* const int dim_
  nrIterations_,   \* size_t nrIterations_
  ritzValue_,      \* double ritzValue_
  ritzVector_,     \* Vector ritzVector_
  phase,           \* "unconstructed", "idle", "computing", "aborted"
  maxIterations,   \* compute's argument
  tol,             \* compute's argument, <<numerator, denominator>>
  i,               \* compute's loop counter
  isConverged,     \* compute's local
  ret,             \* history: the last call and what it returned, once it has
  initLen,         \* history: length of the vector the constructor started from
  seedZero,        \* history: that vector was the zero vector
  ctorApplied,     \* history: the constructor evaluated A_ * x
  refinements,     \* history: replacements of ritzVector_ by powerIteration
  degenerate,      \* history: some step normalised a vector of norm zero
  err,             \* how a call failed, "none" if none did
  entry            \* history: the fields on entry to the current compute call

vars == <<A_, zeroNormalize, assertsEnabled, dim_, nrIterations_, ritzValue_,
          ritzVector_, phase, maxIterations, tol, i, isConverged, ret,
          initLen, seedZero, ctorApplied, refinements, degenerate, err,
          entry>>

fields == <<nrIterations_, ritzValue_, ritzVector_>>

----------------------------------------------------------------------------
\* Integer helpers.

Abs(a) == IF a < 0 THEN -a ELSE a

RECURSIVE Gcd(_, _)
Gcd(a, b) == IF b = 0 THEN a ELSE Gcd(b, a % b)

RECURSIVE GcdSeq(_, _)
GcdSeq(n, k) == IF k = 0 THEN 0 ELSE Gcd(Abs(n[k]), GcdSeq(n, k - 1))

RECURSIVE SumTo(_, _)
SumTo(f, k) == IF k = 0 THEN 0 ELSE f[k] + SumTo(f, k - 1)

\* sum of u[k] * v[k]
IntDot(u, v) == SumTo([k \in 1..Len(u) |-> u[k] * v[k]], Len(u))

Zeros(d) == [k \in 1..d |-> 0]

----------------------------------------------------------------------------
\* Doubles and Eigen vectors.

NaN == [nan |-> TRUE, p |-> 0, q |-> 1]

\* the double p / q, q > 0
Rat(p, q) ==
  LET g == Gcd(Abs(p), q)
  IN  [nan |-> FALSE, p |-> p \div g, q |-> q \div g]

Real(n, s) == [nan |-> FALSE, n |-> n, s |-> s]

NaNVector(d) == [nan |-> TRUE, n |-> Zeros(d), s |-> 1]

\* Vector::Zero(d)
Zero(d) == Real(Zeros(d), 1)

\* x.squaredNorm()
squaredNorm(x) == IF x.nan THEN NaN ELSE Rat(IntDot(x.n, x.n), x.s)

\* x.normalize(): x / x.norm().  A vector of norm zero is left as it is by
\* Eigen >= 3.3 and becomes 0/0 = NaN in every entry with older Eigen.
normalize(x) ==
  IF x.nan THEN x
  ELSE IF IntDot(x.n, x.n) = 0
       THEN IF zeroNormalize = "unchanged" THEN x ELSE NaNVector(Len(x.n))
       ELSE LET g == GcdSeq(x.n, Len(x.n))
                m == [k \in 1..Len(x.n) |-> x.n[k] \div g]
            IN  Real(m, IntDot(m, m))

\* A * x (dense product; NaN entries propagate to every row)
times(A, x) ==
  IF x.nan THEN NaNVector(Len(A))
  ELSE Real([r \in 1..Len(A) |-> IntDot(A[r], x.n)], x.s)

\* x.dot(y) for y of the scale of x, which A * x is
dot(x, y) == IF x.nan \/ y.nan THEN NaN ELSE Rat(IntDot(x.n, y.n), x.s)

\* (y - lambda * x).squaredNorm() for y of the scale of x
residualSquared(y, lambda, x) ==
  IF x.nan \/ y.nan \/ lambda.nan THEN NaN
  ELSE LET d == [k \in 1..Len(x.n) |-> lambda.q * y.n[k] - lambda.p * x.n[k]]
       IN  Rat(IntDot(d, d), lambda.q * lambda.q * x.s)

\* sqrt(e2) < t for the tolerance t = tn / td: false for NaN and for t <= 0
normLess(e2, t) ==
  /\ ~e2.nan
  /\ t[1] > 0
  /\ e2.p * t[2] * t[2] < t[1] * t[1] * e2.q

----------------------------------------------------------------------------
\* The methods of PowerMethod that do not write.

\* powerIteration(const Vector &x): A * x / || A * x ||
powerIteration(x) == normalize(times(A_, x))

\* the body of converged(tol), for the vector x
convergedAt(x, t) ==
  LET ritzValue == dot(x, times(A_, x))
  IN  normLess(residualSquared(times(A_, x), ritzValue, x), t)

converged(t) == convergedAt(ritzVector_, t)

\* A * x has norm zero: what powerIteration(x) cannot normalise
zeroImage(x) ==
  LET y == times(A_, x) IN ~y.nan /\ IntDot(y.n, y.n) = 0

----------------------------------------------------------------------------
\* The inputs.

Fib == <<(<<1, 1>>), (<<1, 0>>)>>        \* eigenvalues 1.618.. and -0.618..
Swap == <<(<<0, 1>>), (<<1, 0>>)>>       \* eigenvalues 1 and -1
Proj == <<(<<1, 0>>), (<<0, 0>>)>>       \* singular
Nil == <<(<<0, 1>>), (<<0, 0>>)>>        \* nilpotent, not symmetric
Null == <<(<<0, 0>>), (<<0, 0>>)>>       \* the zero operator
Two == <<(<<2>>)>>                       \* 1 x 1

Operators == {Fib, Swap, Proj, Nil, Null, Two}

Entries == -MaxEntry..MaxEntry

\* the integer tuples of length d
Tuples(d) == [1..d -> Entries]

\* what a caller can pass as initial
Initials == Tuples(1) \cup Tuples(2) \cup Tuples(3)

\* tolerances tn / td
Tolerances == {<<-1, 1>>, <<0, 1>>, <<1, 16>>, <<1, 8>>, <<1, 2>>, <<2, 1>>}

NoReturn == [op |-> "none", val |-> FALSE]

NoEntry == [vector |-> Zero(0), value |-> Rat(0, 1), iterations |-> 0]

Init ==
  /\ A_ \in Operators
  /\ zeroNormalize \in {"unchanged", "nan"}
  /\ assertsEnabled \in BOOLEAN
  /\ dim_ = 0
  /\ nrIterations_ = 0
  /\ ritzValue_ = Rat(0, 1)
  /\ ritzVector_ = Zero(0)
  /\ phase = "unconstructed"
  /\ maxIterations = 0
  /\ tol = <<0, 1>>
  /\ i = 0
  /\ isConverged = FALSE
  /\ ret = NoReturn
  /\ initLen = 0
  /\ seedZero = FALSE
  /\ ctorApplied = FALSE
  /\ refinements = 0
  /\ degenerate = FALSE
  /\ err = "none"
  /\ entry = NoEntry

----------------------------------------------------------------------------
\* PowerMethod(A, initial)

\* initial has A.rows() entries: lines 56-66 run as written
ConstructFrom(initial) ==
  LET x0 == normalize(Real(initial, 1))
  IN  /\ dim_' = Len(A_)
      /\ nrIterations_' = 0
      /\ ritzValue_' = Rat(0, 1)
      /\ ritzVector_' = powerIteration(x0)
      /\ ctorApplied' = TRUE
      /\ refinements' = refinements + 1
      /\ degenerate' = zeroImage(x0)
      /\ phase' = "idle"
      /\ err' = "none"

\* initial has another length: A_ * x0 is a product of mismatched sizes, which
\* eigen_assert aborts on; with NDEBUG the product reads out of bounds and y
\* is whatever it finds
ConstructMismatched(initial) ==
  /\ dim_' = Len(A_)
  /\ nrIterations_' = 0
  /\ ritzValue_' = Rat(0, 1)
  /\ IF assertsEnabled
     THEN /\ ritzVector_' = Zero(Len(A_))
          /\ ctorApplied' = FALSE
          /\ refinements' = refinements
          /\ degenerate' = FALSE
          /\ phase' = "aborted"
          /\ err' = "eigen_assert"
     ELSE \E y \in {Real(n, 1) : n \in Tuples(Len(A_))}
                  \cup {NaNVector(Len(A_))} :
          /\ ritzVector_' = normalize(y)
          /\ ctorApplied' = TRUE
          /\ refinements' = refinements + 1
          /\ degenerate' = (~y.nan /\ IntDot(y.n, y.n) = 0)
          /\ phase' = "idle"
          /\ err' = "none"

\* initial = boost::none draws Vector::Random(dim_), which is not zero
Construct(given, initial) ==
  /\ phase = "unconstructed"
  /\ given \/ (Len(initial) = Len(A_) /\ initial # Zeros(Len(A_)))
  /\ initLen' = Len(initial)
  /\ seedZero' = (initial = Zeros(Len(initial)))
  /\ IF Len(initial) = Len(A_)
     THEN ConstructFrom(initial)
     ELSE ConstructMismatched(initial)
  /\ ret' = [op |-> "PowerMethod", val |-> given]
  /\ UNCHANGED <<A_, zeroNormalize, assertsEnabled, maxIterations, tol, i,
                 isConverged, entry>>

----------------------------------------------------------------------------
\* compute(maxIterations, tol)

\* Variant of startConverged: the convergence test is made before the loop.
startFromTest(t) == converged(t)

\* bool isConverged = false;
startConverged(t) == FALSE

\* Variant of loopCondition: the budget is the only exit.
budgetOnly == i < maxIterations

\* Variant of loopCondition: the bound is inclusive.
inclusiveBound == i <= maxIterations /\ ~isConverged

\* i < maxIterations && !isConverged
loopCondition == i < maxIterations /\ ~isConverged

\* Variant of countStep: the step is not counted.
countNothing(n) == n

\* Variant of countStep: the step is counted twice.
countTwice(n) == n + 2

\* ++nrIterations_
countStep(n) == n + 1

\* entry to compute: the locals before the loop's first test
ComputeBegin(m, t) ==
  /\ phase = "idle"
  /\ nrIterations_ + m <= MaxTotal
  /\ maxIterations' = m
  /\ tol' = t
  /\ i' = 0
  /\ isConverged' = startConverged(t)
  /\ entry' = [vector |-> ritzVector_, value |-> ritzValue_,
               iterations |-> nrIterations_]
  /\ phase' = "computing"
  /\ ret' = NoReturn
  /\ UNCHANGED <<A_, zeroNormalize, assertsEnabled, dim_, nrIterations_,
                 ritzValue_, ritzVector_, initLen, seedZero, ctorApplied,
                 refinements, degenerate, err>>

\* Variant of ComputeStep: the Ritz value is taken before the vector is
\* replaced (lines 104 and 106 exchanged).
ComputeStepValueFirst ==
  /\ phase = "computing"
  /\ loopCondition
  /\ nrIterations_' = countStep(nrIterations_)
  /\ ritzValue_' = dot(ritzVector_, times(A_, ritzVector_))
  /\ ritzVector_' = powerIteration(ritzVector_)
  /\ isConverged' = convergedAt(ritzVector_', tol)
  /\ i' = i + 1
  /\ refinements' = refinements + 1
  /\ degenerate' = (degenerate \/ zeroImage(ritzVector_))
  /\ UNCHANGED <<A_, zeroNormalize, assertsEnabled, dim_, phase,
                 maxIterations, tol, ret, initLen, seedZero, ctorApplied, err,
                 entry>>

\* one pass of the loop body
ComputeStep ==
  /\ phase = "computing"
  /\ loopCondition
  /\ nrIterations_' = countStep(nrIterations_)
  /\ ritzVector_' = powerIteration(ritzVector_)
  /\ ritzValue_' = dot(ritzVector_', times(A_, ritzVector_'))
  /\ isConverged' = convergedAt(ritzVector_', tol)
  /\ i' = i + 1
  /\ refinements' = refinements + 1
  /\ degenerate' = (degenerate \/ zeroImage(ritzVector_))
  /\ UNCHANGED <<A_, zeroNormalize, assertsEnabled, dim_, phase,
                 maxIterations, tol, ret, initLen, seedZero, ctorApplied, err,
                 entry>>

\* return isConverged; the locals and arguments end with the call
ComputeReturn ==
  /\ phase = "computing"
  /\ ~loopCondition
  /\ ret' = [op |-> "compute", val |-> isConverged,
             maxIterations |-> maxIterations, tol |-> tol, steps |-> i,
             entry |-> entry]
  /\ phase' = "idle"
  /\ maxIterations' = 0
  /\ tol' = <<0, 1>>
  /\ i' = 0
  /\ isConverged' = FALSE
  /\ entry' = NoEntry
  /\ UNCHANGED <<A_, zeroNormalize, assertsEnabled, dim_, nrIterations_,
                 ritzValue_, ritzVector_, initLen, seedZero, ctorApplied,
                 refinements, degenerate, err>>

----------------------------------------------------------------------------
\* The const methods, called on a constructed solver between compute calls.

Probe(op, val) ==
  /\ phase = "idle"
  /\ ret' = [op |-> op, val |-> val]
  /\ UNCHANGED <<A_, zeroNormalize, assertsEnabled, dim_, phase,
                 maxIterations, tol, i, isConverged, initLen, seedZero,
                 ctorApplied, refinements, degenerate, err, entry>>

\* Variant of Converged: the Ritz value it computes is stored in the field.
ConvergedStoring(t) ==
  /\ Probe("converged", converged(t))
  /\ ritzValue_' = dot(ritzVector_, times(A_, ritzVector_))
  /\ UNCHANGED <<nrIterations_, ritzVector_>>

Converged(t) ==
  /\ Probe("converged", converged(t))
  /\ UNCHANGED fields

PowerIteration ==
  /\ Probe("powerIteration", powerIteration(ritzVector_))
  /\ UNCHANGED fields

Eigenvalue ==
  /\ Probe("eigenvalue", ritzValue_)
  /\ UNCHANGED fields

Eigenvector ==
  /\ Probe("eigenvector", ritzVector_)
  /\ UNCHANGED fields

NrIterations ==
  /\ Probe("nrIterations", nrIterations_)
  /\ UNCHANGED fields

----------------------------------------------------------------------------
Next ==
  \/ \E given \in BOOLEAN, initial \in Initials : Construct(given, initial)
  \/ \E m \in 0..MaxIterArg, t \in Tolerances : ComputeBegin(m, t)
  \/ ComputeStep
  \/ ComputeReturn
  \/ \E t \in Tolerances : Converged(t)
  \/ PowerIteration
  \/ Eigenvalue
  \/ Eigenvector
  \/ NrIterations

Spec == Init /\ [][Next]_vars

----------------------------------------------------------------------------
\* Properties.

\* a solver exists
Live == phase \in {"idle", "computing"}

\* the Rayleigh quotient x . (A x) of x
rayleigh(x) == dot(x, times(A_, x))

\* compute has just returned
Returned == ret.op = "compute"

\* x after k refinement steps
RECURSIVE Refined(_, _)
Refined(x, k) == IF k = 0 THEN x ELSE powerIteration(Refined(x, k - 1))

\* the steps of a call compute(m, t) entered with x after which the test passes
Passing(x, m, t) == {k \in 1..m : convergedAt(Refined(x, k), t)}

Least(S) == CHOOSE k \in S : \A j \in S : k <= j

ProbeNames == {"converged", "powerIteration", "eigenvalue", "eigenvector",
               "nrIterations"}

\* C1, as stated: in every state of a constructed solver, eigenvalue() is the
\* Rayleigh quotient ritzVector_ . (A * ritzVector_) of the stored eigenvector.
C1_RayleighInEveryState == Live => ritzValue_ = rayleigh(ritzVector_)

\* C1, amended: from construction until the first refinement step of compute,
\* eigenvalue() is 0.0; from that step on it is the Rayleigh quotient of the
\* stored eigenvector (NaN when the eigenvector is NaN).
C1_RayleighOnceStepped ==
  Live => ritzValue_ = IF nrIterations_ = 0 THEN Rat(0, 1)
                       ELSE rayleigh(ritzVector_)

\* a compute call has left a Ritz value that is neither 0 nor NaN
C1_Stepped ==
  /\ Returned
  /\ nrIterations_ >= 1
  /\ ~ritzValue_.nan
  /\ ritzValue_.p # 0

\* C2, as stated: nrIterations() is the number of refinement steps performed
\* since construction began, the constructor's pass included.
C2_CountsEveryRefinement == Live => nrIterations_ = refinements

\* C2, amended: nrIterations() is the number of refinement steps performed by
\* compute calls, one less than the number performed since construction began
\* (the constructor's pass is not counted), and no step of any operation
\* decrements it.
C2_CountsComputeSteps ==
  [][/\ Live' => nrIterations_' = refinements' - 1
     /\ nrIterations_' >= nrIterations_]_vars

\* two steps of compute have been counted after the constructor's pass
C2_Counted == Returned /\ nrIterations_ = 2 /\ refinements = 3

\* C3, as stated: compute(0, tol) returns what converged(tol) returns in the
\* state it is called in, and leaves the three fields as they were.
C3_ZeroBudgetTests ==
  (Returned /\ ret.maxIterations = 0) =>
    /\ ret.val = convergedAt(ret.entry.vector, ret.tol)
    /\ nrIterations_ = ret.entry.iterations
    /\ ritzValue_ = ret.entry.value
    /\ ritzVector_ = ret.entry.vector

\* C3, amended: compute(0, tol) returns false, whatever converged(tol) returns
\* in the state it is called in, and leaves the three fields as they were.
C3_ZeroBudgetFalse ==
  (Returned /\ ret.maxIterations = 0) =>
    /\ ret.val = FALSE
    /\ nrIterations_ = ret.entry.iterations
    /\ ritzValue_ = ret.entry.value
    /\ ritzVector_ = ret.entry.vector

\* compute(0, tol) has returned in a state where converged(tol) holds
C3_ZeroBudgetConverged ==
  /\ Returned
  /\ ret.maxIterations = 0
  /\ converged(ret.tol)

\* C4: compute(maxIterations, tol) stops at the first step k in
\* 1..maxIterations after which converged(tol) holds and returns true with
\* exactly k steps performed; if the test passes after no such step it
\* performs maxIterations steps and returns false.
C4_StopsAtFirstPass ==
  Returned =>
    LET P == Passing(ret.entry.vector, ret.maxIterations, ret.tol)
        k == IF P # {} THEN Least(P) ELSE ret.maxIterations
    IN  /\ ret.val = (P # {})
        /\ ret.steps = k
        /\ nrIterations_ = ret.entry.iterations + k
        /\ ritzVector_ = Refined(ret.entry.vector, k)

\* a call with a budget of 3 has stopped after its second step
C4_StoppedEarly ==
  /\ Returned
  /\ ret.maxIterations = 3
  /\ ret.steps = 2
  /\ ret.val = TRUE

\* C5, as stated: after compute(maxIterations, tol), nrIterations() lies in
\* 0..maxIterations of that call.
C5_WithinBudgetOfCall == Returned => nrIterations_ \in 0..ret.maxIterations

\* C5, amended: compute(maxIterations, tol) raises nrIterations() by a number
\* in 0..maxIterations of that call (the count runs on over successive calls),
\* and nrIterations() never decreases.
C5_GrowsWithinBudget ==
  [][/\ nrIterations_' >= nrIterations_
     /\ (ret'.op = "compute") =>
          (nrIterations_' - ret'.entry.iterations)
            \in 0..ret'.maxIterations]_vars

\* a later call has taken the count past its own budget
C5_PastBudget ==
  /\ Returned
  /\ ret.maxIterations >= 1
  /\ nrIterations_ > ret.maxIterations

\* C6: constructing with an initial vector whose length is not A.rows() fails
\* with DimensionMismatch, produces no solver and applies the operator never.
C6_MismatchRejected ==
  (phase # "unconstructed" /\ initLen # dim_) =>
    /\ err = "DimensionMismatch"
    /\ ~Live
    /\ ~ctorApplied

\* C7: a refinement step whose A * x has norm zero fails with
\* DegenerateVector, which ends the call, instead of storing the vector that
\* cannot be normalised and iterating on.
C7_DegenerateRejected ==
  (initLen = dim_ /\ ~seedZero /\ degenerate) =>
    (err = "DegenerateVector" /\ ~Live)

\* C8: after a construction from a non-zero vector of A.rows() entries (or a
\* random one) and after every refinement step, the stored eigenvector has
\* Euclidean norm 1.
C8_UnitNorm ==
  (Live /\ initLen = dim_ /\ ~seedZero) =>
    squaredNorm(ritzVector_) = Rat(1, 1)

\* C9: converged, powerIteration, eigenvalue, eigenvector and nrIterations,
\* called in any state between compute calls, leave nrIterations_, ritzValue_
\* and ritzVector_ (and the operator) as they were, so that what compute does
\* next is what it would have done without them.
C9_ProbesWriteNothing ==
  [][(phase = "idle" /\ ret'.op \in ProbeNames) =>
       /\ fields' = fields
       /\ A_' = A_
       /\ phase' = "idle"]_vars

\* converged(tol) has answered on a solver whose stored Ritz value is not the
\* one converged computes
C9_Probed ==
  /\ ret.op = "converged"
  /\ ritzValue_ # rayleigh(ritzVector_)

\* C10: compute(maxIterations, tol) with maxIterations >= 1 performs at least
\* one step even if converged(tol) held on entry; it returns converged(tol)
\* of the state it leaves, in which ritzValue_ is the Rayleigh quotient of
\* ritzVector_.
C10_StepsThenTests ==
  (Returned /\ ret.maxIterations >= 1) =>
    /\ ret.steps >= 1
    /\ nrIterations_ > ret.entry.iterations
    /\ ret.val = converged(ret.tol)
    /\ ritzValue_ = rayleigh(ritzVector_)

\* a call entered with converged(tol) already true has returned
C10_EnteredConverged ==
  /\ Returned
  /\ ret.maxIterations >= 1
  /\ convergedAt(ret.entry.vector, ret.tol)

====
